---- MODULE Spec2Model ----
(***************************************************************************)
(* Model of mp4_converter.py: the startup tool check, detect_gpu_encoder,  *)
(* the discovery of input files and the per-file loop of convert_all_mp4s  *)
(* (existence check, get_video_info, convert_video, Popen, the streaming   *)
(* loop, wait, result classification, the KeyboardInterrupt handler).      *)
(*                                                                         *)
(* The batch is cut into one action per blocking call of the program; the  *)
(* encode child is a process of its own (ChildEmit, ChildBlock, ChildExit).*)
(*                                                                         *)
(* Spec is the whole program.  SpecDiscover starts it at the discovery of  *)
(* line 153 and SpecStream at the Popen of line 202, with directory        *)
(* listings and child output richer than Spec affords.                     *)
(***************************************************************************)
EXTENDS Integers, Sequences, FiniteSets, TLC

\* Bounds of the model.
MaxFiles == 2
MaxLines == 2

\* How many unread lines the pipe between the encode child and the program holds.
PipeCap == 1

\* Program constants.
TargetWidth == 1920
TargetHeight == 1080
TailChars == 200

Platforms == {"win32", "posix"}

\* detect_gpu_encoder: the ordered candidate list, and what a probe can do.
Encoders == << "h264_nvenc", "h264_amf", "h264_qsv", "libx264" >>

ProbeOutcomes == {"exit0", "nonzero", "timeout", "missing"}

Fallback == "libx264"

VARIABLES
    pc,               \* where the program is
    exitStatus,       \* -1 while running, else the process exit status
    uncaught,         \* the exception that left the program, or "none"
    summary,          \* the final summary (lines 313-314) has been printed
    platform,         \* sys.platform
    ffmpegOk,         \* `ffmpeg -version` runs and exits 0
    ffprobeOk,        \* `ffprobe -version` runs and exits 0
    dir,              \* the listing of the input directory
    enc,              \* detect_gpu_encoder: index of the candidate being probed
    probeLog,         \* per probe made, in order: the candidate and whether it exited 0 in time
    gpu_encoder,      \* the selected encoder, "none" before detection
    mp4_files,        \* the job list
    i,                \* index of the file being processed
    status,           \* per job: its status
    outExisted,       \* jobs whose output path existed when the job was reached
    probed,           \* jobs for which get_video_info was called
    info,             \* width, height, duration: what get_video_info returned for file i
    cmd,              \* the argument list convert_video built for file i
    launched,         \* jobs for which Popen returned a child
    child,            \* per job: its encode child: none, running, blocked (in a write
                      \* to the full pipe), exit0, exit1
    reaped,           \* jobs whose child was waited for
    signalled,        \* jobs whose child was sent terminate()
    process,          \* the job the variable `process` is bound to, 0 if unbound
    produced,         \* every line the child bound to `process` has written
    nread,            \* how many of them the parent has read
    event,            \* time_info, percentage_or_fps: what parse_progress returned last
    last_percentage,
    current_fps,
    remaining_output, \* what line 300 read, for the failure diagnostic
    tried,            \* jobs for which Popen was called
    interrupted,      \* a KeyboardInterrupt was delivered
    intrJob           \* the job whose encode was in flight at the interrupt, 0 if none

vars == << pc, exitStatus, uncaught, summary, platform, ffmpegOk, ffprobeOk, dir,
           enc, probeLog, gpu_encoder, mp4_files, i, status, outExisted, probed, info,
           cmd, tried, launched, child, reaped, signalled, process, produced, nread,
           event, last_percentage, current_fps, remaining_output, interrupted, intrJob >>

envVars == << platform, ffmpegOk, ffprobeOk, dir >>
detectVars == << enc, probeLog, gpu_encoder >>
jobVars == << status, outExisted, probed, info, cmd >>
procVars == << tried, launched, child, reaped, signalled, process >>
streamVars == << produced, nread, event, last_percentage, current_fps, remaining_output >>
intrVars == << interrupted, intrJob >>

(***************************************************************************)
(* Input files and discovery (lines 153-161).  A file is a stem and an     *)
(* extension; glob matches the extension of the pattern, ignoring case on  *)
(* win32 only, and os.path.normcase lowers the name on win32 only.         *)
(***************************************************************************)
Exts == {"mp4"}

\* The listings of the input directory: file k has stem k and one of the extensions.
Dirs ==
    UNION { { [k \in 1..n |-> [stem |-> ToString(k), ext |-> x[k]]] : x \in [1..n -> Exts] } :
            n \in 0..MaxFiles }

\* str.lower, on the stems and extensions of the model.
Lower(e) ==
    IF e \in {"mp4", "MP4", "Mp4", "mP4"} THEN "mp4"
    ELSE IF e \in {"clip", "Clip", "CLIP"} THEN "clip"
    ELSE e

Patterns == << "mp4", "MP4" >>

GlobMatch(f, pat, plat) ==
    IF plat = "win32" THEN Lower(f.ext) = Lower(pat) ELSE f.ext = pat

Glob(d, pat, plat) == SelectSeq(d, LAMBDA f : GlobMatch(f, pat, plat))

Normcase(f, plat) ==
    IF plat = "win32" THEN [stem |-> Lower(f.stem), ext |-> Lower(f.ext)] ELSE f

RECURSIVE AddFound(_, _, _)
AddFound(acc, found, plat) ==
    IF found = << >> THEN acc
    ELSE LET f == Head(found)
             dup == \E k \in 1..Len(acc) : Normcase(acc[k], plat) = Normcase(f, plat)
         IN AddFound(IF dup THEN acc ELSE Append(acc, f), Tail(found), plat)

\* Faulty variant of DiscoverFiles: what the two patterns found is concatenated.
DiscoverFilesNoDedup(d, plat) ==
    Glob(d, Patterns[1], plat) \o Glob(d, Patterns[2], plat)

DiscoverFiles(d, plat) ==
    AddFound(AddFound(<< >>, Glob(d, Patterns[1], plat), plat),
             Glob(d, Patterns[2], plat), plat)

\* os.path.basename of the input file, and line 173: the output file of a job.
Basename(f) == f.stem \o "." \o f.ext

OutputFile(f) == "./converted/converted_" \o Basename(f)

\* Listings for the study of discovery alone: two spellings of one stem, three
\* spellings of the extension and another extension, at most MaxListing files.
\* A win32 directory holds no two names that are equal ignoring case.
MaxListing == 2

ListedNames ==
    { [stem |-> s, ext |-> e] : s \in {"clip", "Clip"}, e \in {"mp4", "MP4", "Mp4", "txt"} }

Listings(plat) ==
    UNION { { d \in [1..n -> ListedNames] :
                \A a, b \in 1..n :
                    a # b => IF plat = "win32"
                             THEN Normcase(d[a], plat) # Normcase(d[b], plat)
                             ELSE d[a] # d[b] } :
            n \in 0..MaxListing }

(***************************************************************************)
(* get_video_info (lines 7-33).  What ffprobe did: whether it ran, which   *)
(* of the three fields its output carries, and their values.               *)
(***************************************************************************)
FfprobeRuns ==
    { [run |-> "missing", hasW |-> FALSE, w |-> 0, hasH |-> FALSE, h |-> 0, dur |-> "absent", d |-> 0],
      [run |-> "ok", hasW |-> FALSE, w |-> 0, hasH |-> FALSE, h |-> 0, dur |-> "absent", d |-> 0],
      [run |-> "ok", hasW |-> TRUE, w |-> 1280, hasH |-> TRUE, h |-> 720, dur |-> "unparsable", d |-> 0],
      [run |-> "ok", hasW |-> TRUE, w |-> 1920, hasH |-> TRUE, h |-> 1080, dur |-> "number", d |-> 5],
      [run |-> "ok", hasW |-> TRUE, w |-> 1280, hasH |-> TRUE, h |-> 720, dur |-> "number", d |-> 10],
      [run |-> "ok", hasW |-> TRUE, w |-> 1920, hasH |-> TRUE, h |-> 720, dur |-> "absent", d |-> 0],
      [run |-> "ok", hasW |-> TRUE, w |-> 1280, hasH |-> TRUE, h |-> 0, dur |-> "number", d |-> 10] }

NotProbed == [state |-> "unprobed", width |-> 0, height |-> 0, duration |-> 0]

\* (None, None, 0)
NoInfo == [state |-> "none", width |-> 0, height |-> 0, duration |-> 0]

GetVideoInfo(out) ==
    IF out.run # "ok" THEN NoInfo
    ELSE IF out.hasW /\ out.hasH
         THEN IF out.dur = "unparsable" THEN NoInfo
              ELSE [state |-> "ok", width |-> out.w, height |-> out.h,
                    duration |-> IF out.dur = "number" THEN out.d ELSE 0]
         ELSE NoInfo

(***************************************************************************)
(* Lines of the encode child's output, and parse_progress (lines 119-139). *)
(* A line is one of                                                        *)
(*   out_time_us=<us>                       (parses: <us> is an integer)   *)
(*   fps=<fps>                              (parses: <fps> is a number)    *)
(*   frame=<frame> fps=<fps> ... time=<secs as HH:MM:SS.ff> ...   ("stat") *)
(*   a text with no marker, or bytes that the text-mode pipe cannot decode.*)
(***************************************************************************)
Line(k, parses, us, frame, fps, secs) ==
    [k |-> k, parses |-> parses, us |-> us, frame |-> frame, fps |-> fps, secs |-> secs]

\* The lines the encode child of the batch writes.
Lines ==
    { Line("out_time_us", TRUE, 5000000, 0, 0, 0),
      Line("text", TRUE, 0, 0, 0, 0),
      Line("undecodable", TRUE, 0, 0, 0, 0) }

\* (None, None): the return value of line 139.
NoEvent == [kind |-> "none", seconds |-> 0, value |-> 0]

\* Faulty variant of ParseProgress: a frame rate that is no number is reported as
\* the rate 0.
ParseProgressBadRateAsZero(line, duration) ==
    IF line.k = "out_time_us"
    THEN IF line.parses /\ duration > 0
         THEN [kind |-> "time", seconds |-> line.us \div 1000000,
               value |-> ((line.us \div 1000000) * 100) \div duration]
         ELSE NoEvent
    ELSE IF line.k = "fps"
    THEN [kind |-> "fps", seconds |-> 0, value |-> IF line.parses THEN line.fps ELSE 0]
    ELSE IF line.k = "stat"
    THEN [kind |-> "fps", seconds |-> 0, value |-> line.frame]
    ELSE NoEvent

\* Faulty variant of ParseProgress: with no known duration an elapsed-time line is
\* reported as 0 percent.
ParseProgressZeroPercent(line, duration) ==
    IF line.k = "out_time_us"
    THEN IF line.parses
         THEN [kind |-> "time", seconds |-> line.us \div 1000000,
               value |-> IF duration > 0
                         THEN ((line.us \div 1000000) * 100) \div duration ELSE 0]
         ELSE NoEvent
    ELSE IF line.k = "fps"
    THEN IF line.parses THEN [kind |-> "fps", seconds |-> 0, value |-> line.fps]
         ELSE NoEvent
    ELSE IF line.k = "stat"
    THEN [kind |-> "fps", seconds |-> 0, value |-> line.frame]
    ELSE NoEvent

\* In a stat line the text between the first and the second '=' is the frame
\* count followed by " fps", which line 134 removes: the frame count is returned
\* as the rate.
ParseProgress(line, duration) ==
    IF line.k = "out_time_us"
    THEN IF line.parses /\ duration > 0
         THEN [kind |-> "time", seconds |-> line.us \div 1000000,
               value |-> ((line.us \div 1000000) * 100) \div duration]
         ELSE NoEvent
    ELSE IF line.k = "fps"
    THEN IF line.parses THEN [kind |-> "fps", seconds |-> 0, value |-> line.fps]
         ELSE NoEvent
    ELSE IF line.k = "stat"
    THEN [kind |-> "fps", seconds |-> 0, value |-> line.frame]
    ELSE NoEvent

\* Faulty variant of Surfaced: every percentage above the last one is surfaced.
SurfacedAnyIncrease(line, duration, last, fps) ==
    LET ev == ParseProgress(line, duration)
    IN [last |-> IF ev.kind = "time" /\ ev.value > last THEN ev.value ELSE last,
        fps |-> IF ev.kind = "fps" THEN ev.value ELSE fps]

\* Lines 280-288 (235-244 on win32): last_percentage and current_fps after the line.
Surfaced(line, duration, last, fps) ==
    LET ev == ParseProgress(line, duration)
    IN [last |-> IF ev.kind = "time" /\ ev.value > last + 1 THEN ev.value ELSE last,
        fps |-> IF ev.kind = "fps" THEN ev.value ELSE fps]

\* Lines 246-266, win32 only: a stat line is parsed a second time.
StatFallback(line, duration, t) ==
    IF line.k = "stat" /\ duration > 0
    THEN LET percentage == (line.secs * 100) \div duration
         IN [last |-> IF percentage > t.last + 1 \/ percentage - t.last > 5
                      THEN percentage ELSE t.last,
             fps |-> line.fps]
    ELSE t

\* What one line does to last_percentage and current_fps on the given platform.
Track(plat, line, duration, last, fps) ==
    LET t == Surfaced(line, duration, last, fps)
    IN IF plat = "win32" THEN StatFallback(line, duration, t) ELSE t

\* remaining_output[-200:], a line counting as one character.
LastOutput(rest) ==
    IF Len(rest) <= TailChars THEN rest
    ELSE SubSeq(rest, Len(rest) - TailChars + 1, Len(rest))

Unread == SubSeq(produced, nread + 1, Len(produced))

\* process.poll() is None: the child has not ended.
Alive(c) == c \in {"running", "blocked"}

(***************************************************************************)
(* convert_video (lines 58-117): the argument list of the encode.          *)
(***************************************************************************)
\* Line 156 with INPUT_DIR = ".", and line 173 with the default output directory.
InputFile(f) == "./" \o Basename(f)

\* Line 67 and line 70: the filter of the two branches of line 65.
FilterWide ==
    "scale=1920:1080:force_original_aspect_ratio=decrease,pad=1920:1080:-1:-1:black"

FilterNarrow ==
    "scale=1920:1080:force_original_aspect_ratio=decrease,pad=1920:1080:-1:-1:black"

\* list.insert(idx, x): a negative idx counts from the end, and is clipped at 0.
Insert(seq, idx, x) ==
    LET n == Len(seq)
        at == IF idx < 0 THEN (IF n + idx < 0 THEN 0 ELSE n + idx)
              ELSE (IF idx > n THEN n ELSE idx)
    IN SubSeq(seq, 1, at) \o << x >> \o SubSeq(seq, at + 1, n)

RECURSIVE InsertAll(_, _, _)
InsertAll(seq, idx, xs) ==
    IF xs = << >> THEN seq
    ELSE InsertAll(Insert(seq, idx, Head(xs)), idx, Tail(xs))

\* `sub in gpu_encoder`, on the names of the candidate list.
Contains(name, sub) ==
    \/ sub = "nvenc" /\ name = "h264_nvenc"
    \/ sub = "amf" /\ name = "h264_amf"
    \/ sub = "qsv" /\ name = "h264_qsv"

\* Faulty variant of EncoderParams: the amf test is missing, its encoder gets the
\* parameters of the CPU encoder.
EncoderParamsNoAmf(gpu_encoder_) ==
    IF Contains(gpu_encoder_, "nvenc")
    THEN << "-preset", "p1", "-tune", "hq", "-rc", "vbr", "-cq", "23" >>
    ELSE IF Contains(gpu_encoder_, "qsv")
    THEN << "-preset", "veryfast", "-global_quality", "23" >>
    ELSE << "-preset", "ultrafast", "-crf", "23" >>

\* Lines 84-115: what is inserted, in the order of the insert calls.
EncoderParams(gpu_encoder_) ==
    IF Contains(gpu_encoder_, "nvenc")
    THEN << "-preset", "p1", "-tune", "hq", "-rc", "vbr", "-cq", "23" >>
    ELSE IF Contains(gpu_encoder_, "amf")
    THEN << "-usage", "transcoding", "-rc", "cqp", "-qp_i", "23", "-qp_p", "23" >>
    ELSE IF Contains(gpu_encoder_, "qsv")
    THEN << "-preset", "veryfast", "-global_quality", "23" >>
    ELSE << "-preset", "ultrafast", "-crf", "23" >>

\* original_height is not 0 (AspectDefined): line 62 has divided by it.
ConvertVideo(input_path, output_path, original_width, original_height, gpu_encoder_) ==
    LET scale_filter ==
            IF original_width * TargetHeight > TargetWidth * original_height
            THEN FilterWide ELSE FilterNarrow
    IN InsertAll(<< "ffmpeg", "-i", input_path, "-vf", scale_filter, "-c:v", gpu_encoder_,
                    "-c:a", "copy", "-y", "-stats", output_path >>,
                 -3, EncoderParams(gpu_encoder_))

(***************************************************************************)
(* The program.                                                            *)
(***************************************************************************)
Init ==
    /\ pc = "start"
    /\ exitStatus = -1
    /\ uncaught = "none"
    /\ summary = FALSE
    /\ platform \in Platforms
    /\ ffmpegOk \in BOOLEAN
    /\ ffprobeOk \in BOOLEAN
    /\ dir \in Dirs
    /\ enc = 1
    /\ probeLog = << >>
    /\ gpu_encoder = "none"
    /\ mp4_files = << >>
    /\ i = 0
    /\ status = << >>
    /\ outExisted = {}
    /\ probed = {}
    /\ info = NotProbed
    /\ cmd = << >>
    /\ tried = {}
    /\ launched = {}
    /\ child = << >>
    /\ reaped = {}
    /\ signalled = {}
    /\ process = 0
    /\ produced = << >>
    /\ nread = 0
    /\ event = NoEvent
    /\ last_percentage = 0
    /\ current_fps = 0
    /\ remaining_output = << >>
    /\ interrupted = FALSE
    /\ intrJob = 0

\* Lines 324-331: both tools must run, else exit(1).
StartupCheck ==
    /\ pc = "start"
    /\ IF ffmpegOk /\ ffprobeOk
       THEN pc' = "detect" /\ UNCHANGED exitStatus
       ELSE pc' = "exited" /\ exitStatus' = 1
    /\ UNCHANGED << uncaught, summary, envVars, detectVars, mp4_files, i, jobVars,
                    procVars, streamVars, intrVars >>

\* Faulty variant of ProbeAccepted: the return code is not looked at.
ProbeAcceptedAnyExit(o) == o \in {"exit0", "nonzero"}

\* Lines 48-53: a probe is accepted when it exited 0 within the timeout.
ProbeAccepted(o) == o = "exit0"

\* Faulty variant of DetectProbe: an accepted candidate is remembered and the loop
\* goes on to the next candidate.
DetectProbeNoReturn(o) ==
    /\ pc = "detect"
    /\ enc <= Len(Encoders)
    /\ probeLog' = Append(probeLog, [encoder |-> Encoders[enc], ok |-> (o = "exit0")])
    /\ gpu_encoder' = IF ProbeAccepted(o) THEN Encoders[enc] ELSE gpu_encoder
    /\ enc' = enc + 1
    /\ UNCHANGED pc
    /\ UNCHANGED << exitStatus, uncaught, summary, envVars, mp4_files, i, jobVars,
                    procVars, streamVars, intrVars >>

\* Lines 44-53: one iteration of the candidate loop.
DetectProbe(o) ==
    /\ pc = "detect"
    /\ enc <= Len(Encoders)
    /\ probeLog' = Append(probeLog, [encoder |-> Encoders[enc], ok |-> (o = "exit0")])
    /\ IF ProbeAccepted(o)
       THEN gpu_encoder' = Encoders[enc] /\ pc' = "discover" /\ enc' = enc
       ELSE enc' = enc + 1 /\ UNCHANGED << gpu_encoder, pc >>
    /\ UNCHANGED << exitStatus, uncaught, summary, envVars, mp4_files, i, jobVars,
                    procVars, streamVars, intrVars >>

\* Lines 55-56: the candidate list is exhausted.
DetectFallback ==
    /\ pc = "detect"
    /\ enc > Len(Encoders)
    /\ gpu_encoder' = Fallback
    /\ pc' = "discover"
    /\ UNCHANGED << exitStatus, uncaught, summary, envVars, enc, probeLog, mp4_files, i,
                    jobVars, procVars, streamVars, intrVars >>

\* Lines 153-169: discovery; with no file the function returns at line 165.
Discover ==
    /\ pc = "discover"
    /\ mp4_files' = DiscoverFiles(dir, platform)
    /\ status' = [j \in 1..Len(mp4_files') |-> "Discovered"]
    /\ child' = [j \in 1..Len(mp4_files') |-> "none"]
    /\ IF mp4_files' = << >>
       THEN pc' = "exited" /\ exitStatus' = 0 /\ i' = i
       ELSE pc' = "check" /\ i' = 1 /\ UNCHANGED exitStatus
    /\ UNCHANGED << uncaught, summary, envVars, detectVars, outExisted, probed, info, cmd,
                    tried, launched, reaped, signalled, process, streamVars, intrVars >>

\* The body of the loop of line 171 is left for its next iteration.
NextFile == pc' = "next" /\ i' = i

\* Line 171: the next file, or the end of the loop.  The locals of the finished
\* iteration are dead from here on (each is assigned before it is read again:
\* lines 183, 210-211, 300), and so is the pipe of its child.
Continue ==
    /\ pc = "next"
    /\ IF i < Len(mp4_files) THEN i' = i + 1 /\ pc' = "check"
       ELSE i' = i /\ pc' = "summary"
    /\ info' = NotProbed
    /\ cmd' = << >>
    /\ produced' = << >>
    /\ nread' = 0
    /\ event' = NoEvent
    /\ last_percentage' = 0
    /\ current_fps' = 0
    /\ remaining_output' = << >>
    /\ UNCHANGED << exitStatus, uncaught, summary, envVars, detectVars, mp4_files,
                    status, outExisted, probed, procVars, intrVars >>

\* Faulty variant of CheckExists: the existing output is reported, the file is
\* processed all the same.
CheckExistsNoSkip(e) ==
    /\ pc = "check"
    /\ outExisted' = IF e THEN outExisted \cup {i} ELSE outExisted
    /\ pc' = "probe"
    /\ UNCHANGED << i, status >>
    /\ UNCHANGED << exitStatus, uncaught, summary, envVars, detectVars, mp4_files,
                    probed, info, cmd, procVars, streamVars, intrVars >>

\* Lines 171-180: the output path exists (e) or not; an existing output skips the file.
CheckExists(e) ==
    /\ pc = "check"
    /\ outExisted' = IF e THEN outExisted \cup {i} ELSE outExisted
    /\ IF e
       THEN status' = [status EXCEPT ![i] = "SkippedExists"] /\ NextFile
       ELSE pc' = "probe" /\ UNCHANGED << i, status >>
    /\ UNCHANGED << exitStatus, uncaught, summary, envVars, detectVars, mp4_files,
                    probed, info, cmd, procVars, streamVars, intrVars >>

\* Line 62: original_width / original_height.
AspectDefined(r) == r.height # 0

\* Lines 183-200: get_video_info, the two skips, convert_video (outside the try)
\* and the entry of the try block.
ProbeFile(out) ==
    LET r == GetVideoInfo(out)
    IN /\ pc = "probe"
       /\ info' = r
       /\ probed' = probed \cup {i}
       /\ IF r.state = "none"
          THEN /\ status' = [status EXCEPT ![i] = "SkippedProbeFailed"]
               /\ NextFile
               /\ UNCHANGED << exitStatus, uncaught, cmd >>
          ELSE IF r.width = TargetWidth /\ r.height = TargetHeight
          THEN /\ status' = [status EXCEPT ![i] = "SkippedAlreadyTarget"]
               /\ NextFile
               /\ UNCHANGED << exitStatus, uncaught, cmd >>
          ELSE IF ~AspectDefined(r)
          THEN /\ pc' = "exited"
               /\ exitStatus' = 1
               /\ uncaught' = "ZeroDivisionError"
               /\ UNCHANGED << i, status, cmd >>
          ELSE /\ cmd' = ConvertVideo(InputFile(mp4_files[i]), OutputFile(mp4_files[i]),
                                      r.width, r.height, gpu_encoder)
               /\ status' = [status EXCEPT ![i] = "Running"]
               /\ pc' = "launch"
               /\ UNCHANGED << i, exitStatus, uncaught >>
       /\ UNCHANGED << summary, envVars, detectVars, mp4_files, outExisted,
                       procVars, streamVars, intrVars >>

\* Lines 202-211: Popen returns a child (ok), or raises and line 310 catches it.
Launch(ok) ==
    /\ pc = "launch"
    /\ tried' = tried \cup {i}
    /\ IF ok
       THEN /\ process' = i
            /\ launched' = launched \cup {i}
            /\ child' = [child EXCEPT ![i] = "running"]
            /\ produced' = << >>
            /\ nread' = 0
            /\ last_percentage' = 0
            /\ current_fps' = 0
            /\ remaining_output' = << >>
            /\ pc' = "stream"
            /\ UNCHANGED << i, status, event >>
       ELSE /\ status' = [status EXCEPT ![i] = "Failed"]
            /\ NextFile
            /\ UNCHANGED << process, launched, child, streamVars >>
    /\ UNCHANGED << exitStatus, uncaught, summary, envVars, detectVars, mp4_files,
                    outExisted, probed, info, cmd, reaped, signalled, intrVars >>

\* The encode child writes a line to its output pipe, which has room for it.
ChildEmit(l) ==
    /\ pc \in {"stream", "wait"}
    /\ child[i] = "running"
    /\ Len(produced) < MaxLines
    /\ Len(Unread) < PipeCap
    /\ produced' = Append(produced, l)
    /\ UNCHANGED << pc, exitStatus, uncaught, summary, envVars, detectVars, mp4_files, i,
                    jobVars, procVars, nread, event, last_percentage, current_fps,
                    remaining_output, intrVars >>

\* The encode child writes a line to its output pipe, which is full: the write
\* blocks until the program reads from the pipe.  (MaxLines bounds the lines that
\* got into the pipe, not the one this write holds.)
ChildBlock ==
    /\ pc \in {"stream", "wait"}
    /\ child[i] = "running"
    /\ Len(Unread) >= PipeCap
    /\ child' = [child EXCEPT ![i] = "blocked"]
    /\ UNCHANGED << pc, exitStatus, uncaught, summary, envVars, detectVars, mp4_files, i,
                    jobVars, tried, launched, reaped, signalled, process, streamVars,
                    intrVars >>

\* A child that is not blocked in a write exits with code 0 or 1.
ChildExit(j, rc) ==
    /\ pc # "exited"
    /\ j \in 1..Len(child)
    /\ child[j] = "running"
    /\ child' = [child EXCEPT ![j] = IF rc = 0 THEN "exit0" ELSE "exit1"]
    /\ UNCHANGED << pc, exitStatus, uncaught, summary, envVars, detectVars, mp4_files, i,
                    jobVars, tried, launched, reaped, signalled, process, streamVars,
                    intrVars >>

\* Lines 219-220 (and 227-228, 276-277): the child has ended, the loop is left.
StreamBreak ==
    /\ pc = "stream"
    /\ ~Alive(child[i])
    /\ pc' = "wait"
    /\ UNCHANGED << exitStatus, uncaught, summary, envVars, detectVars, mp4_files, i,
                    jobVars, procVars, streamVars, intrVars >>

\* Lines 223-288: one line is read.  A line that cannot be decoded makes readline
\* raise: win32 catches it at line 268 and leaves the loop, elsewhere it reaches
\* line 310 and the loop of line 171 goes on with the next file.
StreamRead ==
    /\ pc = "stream"
    /\ Alive(child[i])
    /\ nread < Len(produced)
    /\ nread' = nread + 1
    /\ child' = [child EXCEPT ![i] = "running"]
    /\ LET line == produced[nread + 1]
       IN IF line.k = "undecodable"
          THEN /\ UNCHANGED << event, last_percentage, current_fps >>
               /\ IF platform = "win32"
                  THEN pc' = "wait" /\ UNCHANGED << i, status >>
                  ELSE status' = [status EXCEPT ![i] = "Failed"] /\ NextFile
          ELSE /\ event' = ParseProgress(line, info.duration)
               /\ LET t == Track(platform, line, info.duration, last_percentage,
                                  current_fps)
                  IN last_percentage' = t.last /\ current_fps' = t.fps
               /\ UNCHANGED << pc, i, status >>
    /\ UNCHANGED << exitStatus, uncaught, summary, envVars, detectVars, mp4_files,
                    outExisted, probed, info, cmd, tried, launched, reaped, signalled,
                    process, produced, remaining_output, intrVars >>

\* Lines 291-297: wait returns the exit code, which classifies the job.
Wait ==
    /\ pc = "wait"
    /\ ~Alive(child[i])
    /\ reaped' = reaped \cup {i}
    /\ IF child[i] = "exit0"
       THEN status' = [status EXCEPT ![i] = "Succeeded"] /\ NextFile
       ELSE status' = [status EXCEPT ![i] = "Failed"] /\ pc' = "tail" /\ i' = i
    /\ UNCHANGED << exitStatus, uncaught, summary, envVars, detectVars, mp4_files,
                    outExisted, probed, info, cmd, tried, launched, child, signalled,
                    process, streamVars, intrVars >>

\* Lines 298-304: what is left unread in the pipe is read for the diagnostic; an
\* error of the read is swallowed.
ReadTail ==
    /\ pc = "tail"
    /\ IF \E k \in 1..Len(Unread) : Unread[k].k = "undecodable"
       THEN UNCHANGED << remaining_output, nread >>
       ELSE remaining_output' = Unread /\ nread' = Len(produced)
    /\ NextFile
    /\ UNCHANGED << exitStatus, uncaught, summary, envVars, detectVars, mp4_files,
                    jobVars, procVars, produced, event, last_percentage, current_fps,
                    intrVars >>

\* Faulty variant of OnKeyboardInterrupt: the child is terminated, the `break` of
\* line 309 is missing.
OnKeyboardInterruptNoBreak ==
    /\ pc \in {"launch", "stream", "wait"}
    /\ interrupted' = TRUE
    /\ intrJob' = IF pc \in {"stream", "wait"} THEN i ELSE intrJob
    /\ IF process = 0
       THEN /\ pc' = "exited"
            /\ exitStatus' = 1
            /\ uncaught' = "UnboundLocalError"
            /\ UNCHANGED << signalled, reaped >>
       ELSE /\ pc' = "next"
            /\ IF Alive(child[process])
               THEN signalled' = signalled \cup {process} /\ UNCHANGED reaped
               ELSE reaped' = reaped \cup {process} /\ UNCHANGED signalled
            /\ UNCHANGED << exitStatus, uncaught >>
    /\ UNCHANGED << summary, envVars, detectVars, mp4_files, i, jobVars, tried, launched,
                    child, process, streamVars >>

\* Lines 306-309: KeyboardInterrupt inside the try block, before the exit code is
\* classified.  terminate() signals the process `process` is bound to unless that
\* process has ended; with `process` unbound the handler itself raises.
OnKeyboardInterrupt ==
    /\ pc \in {"launch", "stream", "wait"}
    /\ interrupted' = TRUE
    /\ intrJob' = IF pc \in {"stream", "wait"} THEN i ELSE intrJob
    /\ IF process = 0
       THEN /\ pc' = "exited"
            /\ exitStatus' = 1
            /\ uncaught' = "UnboundLocalError"
            /\ UNCHANGED << signalled, reaped >>
       ELSE /\ pc' = "summary"
            /\ IF Alive(child[process])
               THEN signalled' = signalled \cup {process} /\ UNCHANGED reaped
               ELSE reaped' = reaped \cup {process} /\ UNCHANGED signalled
            /\ UNCHANGED << exitStatus, uncaught >>
    /\ UNCHANGED << summary, envVars, detectVars, mp4_files, i, jobVars, tried, launched,
                    child, process, streamVars >>

\* Lines 299-304: KeyboardInterrupt during the read of line 300 is caught by the
\* bare except, and the loop goes on.
InterruptTail ==
    /\ pc = "tail"
    /\ interrupted' = TRUE
    /\ NextFile
    /\ UNCHANGED << exitStatus, uncaught, summary, envVars, detectVars, mp4_files,
                    jobVars, procVars, streamVars, intrJob >>

\* Lines 313-314, and the end of the program.
Summary ==
    /\ pc = "summary"
    /\ summary' = TRUE
    /\ pc' = "exited"
    /\ exitStatus' = 0
    /\ UNCHANGED << uncaught, envVars, detectVars, mp4_files, i, jobVars, procVars,
                    streamVars, intrVars >>

Next ==
    \/ StartupCheck
    \/ \E o \in ProbeOutcomes : DetectProbe(o)
    \/ DetectFallback
    \/ Discover
    \/ \E e \in BOOLEAN : CheckExists(e)
    \/ \E out \in FfprobeRuns : ProbeFile(out)
    \/ \E ok \in BOOLEAN : Launch(ok)
    \/ \E l \in Lines : ChildEmit(l)
    \/ ChildBlock
    \/ \E j \in 1..MaxFiles, rc \in {0, 1} : ChildExit(j, rc)
    \/ StreamBreak
    \/ StreamRead
    \/ Wait
    \/ ReadTail
    \/ Continue
    \/ OnKeyboardInterrupt
    \/ InterruptTail
    \/ Summary

Spec == Init /\ [][Next]_vars

(***************************************************************************)
(* Parts of the program on their own: the program is started in a state it *)
(* reaches, with inputs that the batch above is too small for.             *)
(***************************************************************************)
\* detect_gpu_encoder has returned candidate k, or the fallback after all four.
DetectionAt(k) ==
    [enc |-> k,
     probeLog |-> [m \in 1..(IF k > Len(Encoders) THEN Len(Encoders) ELSE k) |->
                      [encoder |-> Encoders[m], ok |-> (m = k)]],
     gpu_encoder |-> IF k > Len(Encoders) THEN Fallback ELSE Encoders[k]]

Detections == { DetectionAt(k) : k \in 1..(Len(Encoders) + 1) }

\* The startup check has passed and detect_gpu_encoder has returned.
Detected ==
    /\ exitStatus = -1
    /\ uncaught = "none"
    /\ summary = FALSE
    /\ platform \in Platforms
    /\ ffmpegOk = TRUE
    /\ ffprobeOk = TRUE
    /\ \E det \in Detections :
          enc = det.enc /\ probeLog = det.probeLog /\ gpu_encoder = det.gpu_encoder
    /\ interrupted = FALSE
    /\ intrJob = 0

\* Line 153 is reached: detection is over, no file has been looked at.
InitDiscover ==
    /\ Detected
    /\ pc = "discover"
    /\ dir \in Listings(platform)
    /\ mp4_files = << >>
    /\ i = 0
    /\ status = << >>
    /\ outExisted = {}
    /\ probed = {}
    /\ info = NotProbed
    /\ cmd = << >>
    /\ tried = {}
    /\ launched = {}
    /\ child = << >>
    /\ reaped = {}
    /\ signalled = {}
    /\ process = 0
    /\ produced = << >>
    /\ nread = 0
    /\ event = NoEvent
    /\ last_percentage = 0
    /\ current_fps = 0
    /\ remaining_output = << >>

NextDiscover == Discover

SpecDiscover == InitDiscover /\ [][NextDiscover]_vars

\* The lines of the encode child for the study of one job: elapsed times of 30,
\* 31 and 60 s, a frame rate, a stat line, and the two markers with a value that
\* is no number.
StreamLines ==
    { Line("out_time_us", TRUE, 30000000, 0, 0, 0),
      Line("out_time_us", TRUE, 31000000, 0, 0, 0),
      Line("out_time_us", TRUE, 60000000, 0, 0, 0),
      Line("out_time_us", FALSE, 0, 0, 0, 0),
      Line("fps", TRUE, 0, 0, 24, 0),
      Line("fps", FALSE, 0, 0, 0, 0),
      Line("stat", TRUE, 0, 100, 25, 60) }

\* The durations get_video_info returned for the job: unknown (0), 100 s, 120 s.
StreamDurations == {0, 100, 120}

\* The percentage of the line is a whole number of points: then the integer
\* arithmetic of ParseProgress and StatFallback is that of lines 125 and 256.
Exact(line, duration) ==
    duration > 0 =>
        /\ ((line.us \div 1000000) * 100) % duration = 0
        /\ (line.secs * 100) % duration = 0

\* What last_percentage and current_fps hold when the second job is started: the
\* values the first job left.
StaleLocals == { << 0, 0 >>, << 60, 24 >> }

\* Line 202 is reached for the second of two files; the first was encoded.
InitStream ==
    /\ Detected
    /\ pc = "launch"
    /\ dir = [k \in 1..2 |-> [stem |-> ToString(k), ext |-> "mp4"]]
    /\ mp4_files = dir
    /\ i = 2
    /\ status = << "Succeeded", "Running" >>
    /\ outExisted = {}
    /\ probed = {1, 2}
    /\ \E d \in StreamDurations :
          info = [state |-> "ok", width |-> 1280, height |-> 720, duration |-> d]
    /\ cmd = ConvertVideo(InputFile(mp4_files[2]), OutputFile(mp4_files[2]), 1280, 720,
                          gpu_encoder)
    /\ tried = {1}
    /\ launched = {1}
    /\ child = << "exit0", "none" >>
    /\ reaped = {1}
    /\ signalled = {}
    /\ process = 1
    /\ produced = << >>
    /\ nread = 0
    /\ event = NoEvent
    /\ \E st \in StaleLocals : last_percentage = st[1] /\ current_fps = st[2]
    /\ remaining_output = << >>

NextStream ==
    \/ \E ok \in BOOLEAN : Launch(ok)
    \/ \E l \in StreamLines : Exact(l, info.duration) /\ ChildEmit(l)
    \/ ChildBlock
    \/ StreamRead

SpecStream == InitStream /\ [][NextStream]_vars

(***************************************************************************)
(* The claims.                                                             *)
(***************************************************************************)
ToolsOk == ffmpegOk /\ ffprobeOk

Jobs == 1..Len(mp4_files)

TerminalStatuses ==
    {"SkippedExists", "SkippedProbeFailed", "SkippedAlreadyTarget", "Succeeded", "Failed"}

AnyOk(log) == \E k \in 1..Len(log) : log[k].ok

\* The first candidate of the log whose probe exited 0 in time.
FirstOk(log) ==
    log[CHOOSE k \in 1..Len(log) : log[k].ok /\ \A m \in 1..(k - 1) : ~log[m].ok].encoder

\* C1: detect_gpu_encoder probes the candidates in list order and returns the first
\* one whose probe exited 0 within the timeout, never one rejected before it; when
\* no probe succeeded it returns libx264; none of the four probe outcomes makes it
\* fail.
C1_FirstAcceptedOrFallback ==
    /\ \A k \in 1..Len(probeLog) : probeLog[k].encoder = Encoders[k]
    /\ pc = "detect" => exitStatus = -1 /\ uncaught = "none" /\ enc \in 1..(Len(Encoders) + 1)
    /\ gpu_encoder # "none" =>
          IF AnyOk(probeLog)
          THEN /\ gpu_encoder = FirstOk(probeLog)
               /\ \A k \in 1..Len(probeLog) :
                     ~probeLog[k].ok => probeLog[k].encoder # gpu_encoder
          ELSE gpu_encoder = Fallback /\ Len(probeLog) = Len(Encoders)

\* C1 witness: the first two candidates were rejected and the third was returned.
C1_Witness ==
    /\ gpu_encoder = "h264_qsv"
    /\ Len(probeLog) = 3
    /\ ~probeLog[1].ok /\ ~probeLog[2].ok /\ probeLog[3].ok

\* C2: without a user interrupt every discovered file reaches a terminal outcome and
\* nothing escapes convert_all_mp4s, whatever the probe and the encode did.
C2_EveryFileProcessed ==
    (pc = "exited" /\ ToolsOk /\ ~interrupted) =>
        /\ uncaught = "none"
        /\ \A j \in Jobs : status[j] \in TerminalStatuses

\* C3: a job whose output path existed when it was reached is neither probed nor
\* encoded, and ends Skipped(exists).
C3_ExistingOutputNotTouched ==
    \A j \in outExisted :
        /\ j \notin probed
        /\ j \notin tried
        /\ child[j] = "none"
        /\ status[j] = "SkippedExists"

\* C3 witness: the batch is over, the first file's output existed and a later file
\* was encoded.
C3_Witness ==
    /\ pc = "exited"
    /\ 1 \in outExisted
    /\ \E j \in Jobs : j > 1 /\ j \in launched

\* C4: a job probed at exactly 1920x1080 ends Skipped(already-target-resolution)
\* without an encode; a job probed with any other dimensions is encoded.
C4_TargetSkippedOthersEncoded ==
    /\ \A j \in Jobs : status[j] = "SkippedAlreadyTarget" => j \notin tried
    /\ (pc \in {"next", "exited"} /\ info.state = "ok") =>
          IF info.width = TargetWidth /\ info.height = TargetHeight
          THEN status[i] = "SkippedAlreadyTarget" /\ i \notin tried
          ELSE i \in tried

\* C5: after an interrupt that arrived while the encode of a job was in flight, the
\* child of that job has been sent terminate (unless it had ended), and no later
\* file is probed or encoded.
C5_InterruptTerminatesAndHalts ==
    intrJob # 0 =>
        /\ intrJob \in signalled \/ ~Alive(child[intrJob])
        /\ pc \in {"summary", "exited"}
        /\ \A j \in Jobs : j > intrJob =>
              j \notin probed /\ j \notin tried /\ status[j] = "Discovered"

\* C5 witness: the first of two files was interrupted in flight and its child was
\* signalled.
C5_Witness ==
    /\ intrJob = 1
    /\ Len(mp4_files) > 1
    /\ 1 \in signalled
    /\ pc = "exited"

\* C6: at most one encode child is alive, and the child of a job has ended before
\* the next job is started.
C6_OneEncodeAtATime ==
    /\ Cardinality({j \in Jobs : Alive(child[j])}) <= 1
    /\ \A j \in Jobs : j < i => ~Alive(child[j])

AllowedStep(s, t) ==
    \/ s = t
    \/ s = "Discovered" /\ t \in {"SkippedExists", "SkippedProbeFailed",
                                  "SkippedAlreadyTarget", "Running"}
    \/ s = "Running" /\ t \in {"Succeeded", "Failed"}

\* C7: a job's status moves only Discovered -> Skipped(...) or Discovered -> Running
\* -> Succeeded | Failed; a Running job ends Succeeded exactly when its child exited
\* 0 and Failed exactly when it exited non-zero; when the program ends every job has
\* a terminal status.
C7_StatusMachine ==
    [][ /\ \A j \in (DOMAIN status) \cap (DOMAIN status') :
            /\ AllowedStep(status[j], status'[j])
            /\ (status[j] = "Running" /\ status'[j] = "Succeeded") => child'[j] = "exit0"
            /\ (status[j] = "Running" /\ status'[j] = "Failed") => child'[j] = "exit1"
            /\ (status[j] = "Running" /\ j \in reaped' /\ j \notin reaped) =>
                  status'[j] = (IF child'[j] = "exit0" THEN "Succeeded" ELSE "Failed")
        /\ (pc # "exited" /\ pc' = "exited" /\ ToolsOk) =>
              \A j \in DOMAIN status' : status'[j] \in TerminalStatuses
      ]_vars

\* C8: when an encode exits non-zero, the tail of the output it produced is what the
\* failure diagnostic has, also when the loop had read every line.
C8_FailureTailAvailable ==
    ( /\ pc = "next"
      /\ ~interrupted
      /\ status[i] = "Failed"
      /\ i \in reaped
      /\ child[i] = "exit1"
      /\ \A k \in 1..Len(produced) : produced[k].k # "undecodable" ) =>
        LastOutput(remaining_output) = LastOutput(produced)

\* C9: with a tool missing at startup the program exits non-zero and nothing else
\* has happened; otherwise it ends with status 0 and, unless interrupted, with every
\* discovered file processed.
C9_ExitStatus ==
    /\ ~ToolsOk =>
          /\ probeLog = << >> /\ gpu_encoder = "none" /\ mp4_files = << >>
          /\ probed = {} /\ tried = {}
          /\ pc = "exited" => exitStatus = 1
    /\ (ToolsOk /\ pc = "exited") =>
          /\ exitStatus = 0
          /\ ~interrupted => \A j \in Jobs : status[j] \in TerminalStatuses

\* C10: a run that passed the startup check does not end without the final summary.
C10_SummaryAlwaysEmitted ==
    (pc = "exited" /\ ToolsOk) => summary

File(stem, ext) == [stem |-> stem, ext |-> ext]

Listed(f) == \E k \in 1..Len(dir) : dir[k] = f

JobsOf(f) == { j \in Jobs : mp4_files[j] = f }

\* C11: the job list never holds two entries whose normalized paths are equal, nor
\* two entries with the same output path (compared as the platform compares
\* names); a file that both patterns find (Clip.MP4 under win32) is one job, and
\* Clip.MP4 next to clip.mp4 in a case-sensitive directory are two jobs.
C11_NoDuplicateJobs ==
    pc # "discover" =>
        /\ \A a, b \in Jobs :
              a # b => /\ Normcase(mp4_files[a], platform) # Normcase(mp4_files[b], platform)
                       /\ OutputFile(mp4_files[a]) # OutputFile(mp4_files[b])
                       /\ OutputFile(Normcase(mp4_files[a], platform))
                             # OutputFile(Normcase(mp4_files[b], platform))
        /\ (platform = "win32" /\ Listed(File("Clip", "MP4"))) =>
              Cardinality(JobsOf(File("Clip", "MP4"))) = 1
        /\ (platform = "posix" /\ Listed(File("Clip", "MP4")) /\ Listed(File("clip", "mp4"))) =>
              /\ Cardinality(JobsOf(File("Clip", "MP4"))) = 1
              /\ Cardinality(JobsOf(File("clip", "mp4"))) = 1

\* C11 witness: under win32 both patterns found Clip.MP4, and it is the one job.
C11_Witness ==
    /\ pc = "check"
    /\ platform = "win32"
    /\ Len(Glob(dir, Patterns[1], platform)) = 1
    /\ Len(Glob(dir, Patterns[2], platform)) = 1
    /\ mp4_files = << File("Clip", "MP4") >>

\* C12: every listed file whose extension is "mp4" ignoring case is exactly one job,
\* on either platform.
C12_DiscoveryComplete ==
    pc # "discover" =>
        \A k \in 1..Len(dir) :
            Lower(dir[k].ext) = "mp4" => Cardinality(JobsOf(dir[k])) = 1

\* The line the streaming loop read last.
LastLine == produced[nread]

\* C13: for an out_time_us line with an integer value parse_progress returns the
\* elapsed seconds and elapsed / duration * 100 when duration > 0 (30 s of 120 s:
\* 25), and no event when duration is 0.
C13_ElapsedPercent ==
    (pc = "stream" /\ nread >= 1 /\ LastLine.k = "out_time_us" /\ LastLine.parses) =>
        /\ IF info.duration > 0
           THEN /\ event.kind = "time"
                /\ event.seconds * 1000000 = LastLine.us
                /\ event.value * info.duration = event.seconds * 100
           ELSE event = NoEvent
        /\ (LastLine.us = 30000000 /\ info.duration = 120) => event.value = 25

\* C13 witness: 30 s of 120 s were parsed as 25 percent.
C13_Witness ==
    /\ pc = "stream"
    /\ nread >= 1
    /\ LastLine = Line("out_time_us", TRUE, 30000000, 0, 0, 0)
    /\ info.duration = 120
    /\ event = [kind |-> "time", seconds |-> 30, value |-> 25]

\* A line with the out_time_us= or the fps= marker whose value is no number.
Malformed(line) == line.k \in {"out_time_us", "fps"} /\ ~line.parses

C15_Throttle ==
    [][ /\ (pc = "stream" /\ pc' = "stream" /\ last_percentage' # last_percentage) =>
              /\ last_percentage' > last_percentage + 1
              /\ nread' = nread + 1
              /\ LET line == produced[nread + 1]
                 IN last_percentage' * info.duration =
                        (IF line.k = "stat" THEN line.secs ELSE line.us \div 1000000) * 100
        /\ (pc = "launch" /\ pc' = "stream") => last_percentage' = 0
      ]_vars

\* C15 witness: 30 percent was surfaced, the line for 31 percent was read and not
\* surfaced.
C15_Witness ==
    /\ pc = "stream"
    /\ info.duration = 100
    /\ nread = 2
    /\ produced[1].us = 30000000
    /\ produced[2].us = 31000000
    /\ event.value = 31
    /\ last_percentage = 30

\* The value of the -c:v option of an argument list.
VideoCodecOf(c) == c[(CHOOSE k \in 1..(Len(c) - 1) : c[k] = "-c:v") + 1]

\* C16: the probes made are the candidates in list order, each once at most, and
\* none follows an accepted one; no file is probed or encoded before the selection
\* is made, the selection does not change afterwards, and the argument list every
\* Popen is called with names the selected encoder.
C16_ProbeOrderAndUse ==
    /\ Len(probeLog) <= Len(Encoders)
    /\ \A k \in 1..Len(probeLog) : probeLog[k].encoder = Encoders[k]
    /\ \A k \in 1..(Len(probeLog) - 1) : ~probeLog[k].ok
    /\ (gpu_encoder = "none") = (pc \in {"start", "detect"} \/ ~ToolsOk)
    /\ gpu_encoder = "none" =>
          mp4_files = << >> /\ probed = {} /\ tried = {} /\ launched = {} /\ cmd = << >>
    /\ gpu_encoder # "none" =>
          IF AnyOk(probeLog)
          THEN probeLog[Len(probeLog)].ok /\ gpu_encoder = Encoders[Len(probeLog)]
          ELSE Len(probeLog) = Len(Encoders) /\ gpu_encoder = Fallback
    /\ pc = "launch" => cmd # << >> /\ VideoCodecOf(cmd) = gpu_encoder

\* C16 witness: the first two candidates were rejected, the third was accepted,
\* three probes were made, and the second encode of the batch runs with the third.
C16_Witness ==
    /\ Len(probeLog) = 3
    /\ ~probeLog[1].ok /\ ~probeLog[2].ok /\ probeLog[3].ok
    /\ 1 \in launched
    /\ i = 2
    /\ pc = "launch"
    /\ VideoCodecOf(cmd) = "h264_qsv"

\* C17: when get_video_info reports success, width and height are positive and
\* duration is not negative, so the division of line 62 is defined; when it reports
\* failure nothing was raised and the file is skipped.
C17_ProbeSuccessWellFormed ==
    /\ info.state = "ok" =>
          /\ info.width > 0
          /\ info.height > 0
          /\ info.duration >= 0
          /\ AspectDefined(info)
    /\ info.state = "none" =>
          uncaught = "none" /\ status[i] = "SkippedProbeFailed" /\ i \notin tried

\* The program is in process.wait() and the child is blocked in a write: only a
\* read of the pipe would let the child go on and end, and wait does not read.
WaitsOnBlockedChild == pc = "wait" /\ child[i] = "blocked"

\* C18: the program is never in process.wait() (line 291) for a child that is
\* blocked in a write to the pipe nobody reads any more, the state neither of the
\* two leaves; and when a run that was not interrupted ends, every child that was
\* started has been reaped by wait and its job is Succeeded or Failed.
C18_StreamingEndsReaped ==
    /\ ~WaitsOnBlockedChild
    /\ (pc = "exited" /\ ~interrupted /\ uncaught = "none") =>
          \A j \in launched : j \in reaped /\ status[j] \in {"Succeeded", "Failed"}

\* C19: whatever was read before, the line the loop is about to read does the same
\* to last_percentage and current_fps in the win32 branch and in the other branch;
\* and after a stat line current_fps is the rate that line carries, on either
\* platform.
C19_PlatformsAgree ==
    /\ (pc = "stream" /\ nread < Len(produced)) =>
          Track("win32", produced[nread + 1], info.duration, last_percentage, current_fps)
            = Track("posix", produced[nread + 1], info.duration, last_percentage, current_fps)
    /\ (pc = "stream" /\ nread >= 1 /\ LastLine.k = "stat" /\ info.duration > 0) =>
          current_fps = LastLine.fps

\* The positions of an argument in an argument list.
PositionsOf(c, arg) == { k \in 1..Len(c) : c[k] = arg }

\* The option occurs once in the argument list and the value follows it.
HasPair(c, opt, val) ==
    /\ Cardinality(PositionsOf(c, opt)) = 1
    /\ \A k \in PositionsOf(c, opt) : k < Len(c) /\ c[k + 1] = val

\* The parameters of each encoder family, as option and value.
FamilyPairs(encoder) ==
    IF encoder = "h264_nvenc"
    THEN { << "-preset", "p1" >>, << "-tune", "hq" >>, << "-rc", "vbr" >>, << "-cq", "23" >> }
    ELSE IF encoder = "h264_amf"
    THEN { << "-usage", "transcoding" >>, << "-rc", "cqp" >>, << "-qp_i", "23" >>,
           << "-qp_p", "23" >> }
    ELSE IF encoder = "h264_qsv"
    THEN { << "-preset", "veryfast" >>, << "-global_quality", "23" >> }
    ELSE { << "-preset", "ultrafast" >>, << "-crf", "23" >> }

FamilyOptions ==
    { "-preset", "-tune", "-rc", "-cq", "-usage", "-qp_i", "-qp_p", "-global_quality", "-crf" }

\* C20: the argument list convert_video returned has the one scale+pad filter, the same
\* for a source wider than 16:9 and for any other, the pair -c:a copy and the flag
\* -y, every option of the encoder's family once and followed by its value, no
\* option of another family, nothing else added, and the output file last.
C20_CommandShape ==
    /\ FilterWide = FilterNarrow
    /\ pc = "launch" =>
          /\ cmd[1] = "ffmpeg"
          /\ HasPair(cmd, "-i", InputFile(mp4_files[i]))
          /\ HasPair(cmd, "-vf", FilterWide)
          /\ HasPair(cmd, "-c:v", gpu_encoder)
          /\ HasPair(cmd, "-c:a", "copy")
          /\ Cardinality(PositionsOf(cmd, "-y")) = 1
          /\ \A pr \in FamilyPairs(gpu_encoder) : HasPair(cmd, pr[1], pr[2])
          /\ \A opt \in FamilyOptions :
                (\A pr \in FamilyPairs(gpu_encoder) : pr[1] # opt) =>
                    PositionsOf(cmd, opt) = {}
          /\ Len(cmd) = 12 + 2 * Cardinality(FamilyPairs(gpu_encoder))
          /\ cmd[Len(cmd)] = OutputFile(mp4_files[i])

\* C20 witness: the argument list for a source wider than 16:9 and the AMD encoder.
C20_Witness ==
    /\ pc = "launch"
    /\ gpu_encoder = "h264_amf"
    /\ info.width * TargetHeight > TargetWidth * info.height
    /\ cmd = << "ffmpeg", "-i", "./1.mp4", "-vf", FilterWide, "-c:v", "h264_amf",
                "-c:a", "copy", "-usage", "transcoding", "-rc", "cqp", "-qp_i", "23",
                "-qp_p", "23", "-y", "-stats", "./converted/converted_1.mp4" >>

====
